---- MODULE Spec2Model ----
(***************************************************************************)
(* A model of FijiAnalysis/ProcessFolder.py: the batch driver run(), the   *)
(* per-file pipeline process() with the host library's process-wide ROI    *)
(* manager and results table, and the aggregator                           *)
(* compile_integrated_density().                                           *)
(*                                                                         *)
(* The host library (ImageJ) is the environment: whether an image opens,   *)
(* how many slices it has, which particles the analyzer finds, whether     *)
(* "Measure" adds a row, and whether a call throws are choices made by \E. *)
(***************************************************************************)
EXTENDS Integers, Sequences, FiniteSets, TLC

(***************************************************************************)
(* Bounds of the model.                                                    *)
(***************************************************************************)
MaxFiles    == 2   \* entries the directory walk yields
MaxSlices   == 2   \* slices of a source stack
MaxComps    == 2   \* particles the analyzer reports for one projected plane
MaxRows     == 4   \* rows of a per-file table handed to the aggregator

(***************************************************************************)
(* Script parameters and literals of the source.                           *)
(***************************************************************************)
ext              == ".tif"                       \* #@ String ext, default value
MinParticleSize  == 50                           \* ParticleAnalyzer minSize
MeasurementsSuffix == "_measurements.csv"
CompiledName     == "compiled_density_data.csv"
CsvHeaders       == <<"Area", "Min", "Max", "IntDen", "Mean", "RawIntDen", "Stack Position">>
EmptyMarker      == ""                           \* the '' used for padding
None             == [none |-> TRUE]

(***************************************************************************)
(* Strings.  TLC concatenates strings with \o; suffix and substring tests  *)
(* are decided over the pieces that make up the names of the model.        *)
(***************************************************************************)
Stems     == {"a", "b"}
FileNames == {"a.tif", "b.tif", "a.txt"}
Filters   == {"", "a"}
AggNames  == {"a.tif", "b.tif"}
Pieces    == {"", ".tif", ".txt", "notes", CompiledName, "compiled_density_data"}
               \cup Stems \cup FileNames \cup AggNames
               \cup {n \o "_measurements" : n \in FileNames \cup AggNames}
               \cup {n \o MeasurementsSuffix : n \in FileNames \cup AggNames}

\* str.endswith(suffix)
EndsWith(s, suffix) == \E p \in Pieces : p \o suffix = s

\* sub in s
Contains(sub, s) == \E p \in Pieces, q \in Pieces : (p \o sub) \o q = s

\* repr() of a float with an integral value, as csv.writer writes it
FloatStr(v) == ToString(v) \o ".0"

\* str() of an int
IntStr(i) == ToString(i)

(***************************************************************************)
(* Sequences.                                                              *)
(***************************************************************************)
Range(s) == {s[i] : i \in DOMAIN s}

Last(s) == s[Len(s)]

RECURSIVE Repeat(_, _)
Repeat(x, n) == IF n <= 0 THEN <<>> ELSE <<x>> \o Repeat(x, n - 1)

\* all sequences of length at most n over S
SeqsUpTo(S, n) == UNION {[1..k -> S] : k \in 0..n}

\* all sequences that list every element of S exactly once
Orderings(S) == {s \in [1..Cardinality(S) -> S] : Range(s) = S}

Injective(s) == \A i, j \in DOMAIN s : s[i] = s[j] => i = j

VARIABLES
    walk,          \* the (directory, fileName) entries os.walk yields, in order
    fileFilter,    \* script parameter fileFilter
    idx,           \* entries of walk the loop of run() has consumed
    pc,            \* position of the script
    attempted,     \* file names process() was called with, in call order
    cur,           \* process(): fileName
    nSlices,       \* process(): stack.getSize() of imp / result_imp
    roi,           \* process(): roi
    detected,      \* determine_roi(): the particles the analyzer kept for summed_imp
    slice,         \* apply_roi_and_measure(): i
    measurements,  \* apply_roi_and_measure(): measurements
    roiManager,    \* RoiManager.getInstance(): the ROIs it holds, in order
    rt,            \* ResultsTable.getResultsTable(): the system results table
    openImages,    \* ImagePlus objects opened or created and not closed
    mutated,       \* ImagePlus objects a stage has changed in place
    bgLoads,       \* calls of open_image(backgroundImagePath)
    csvDir,        \* files of csvOutputDir: name -> table
    dstFiles,      \* files written under dstDir
    log,           \* what the script printed: <<fileName, message>>
    compiled       \* the table compile_integrated_density wrote, or None

vars == <<walk, fileFilter, idx, pc, attempted, cur, nSlices, roi, detected, slice,
          measurements, roiManager, rt, openImages, mutated, bgLoads, csvDir,
          dstFiles, log, compiled>>

(***************************************************************************)
(* Images.  An ImagePlus is named by the file whose process() call made it *)
(* and by the local variable that holds it.                                *)
(***************************************************************************)
Image(f, kind) == [file |-> f, kind |-> kind]

(***************************************************************************)
(* Segmenter: determine_roi.                                               *)
(*                                                                         *)
(* A particle is its bounding box and its pixel count.  The shapes below   *)
(* hold a pair with equal bounding-box areas of which the second has the   *)
(* fewer pixels and sits on the size cutoff (10x10 with 100 pixels, 5x20   *)
(* with 50), and one below the cutoff whose box is the largest of all      *)
(* (30x30 with 49 pixels).                                                 *)
(***************************************************************************)
Shapes == { [w |-> 10, h |-> 10, area |-> 100],
            [w |-> 5,  h |-> 20, area |-> 50],
            [w |-> 30, h |-> 30, area |-> 49] }

\* what connected-component labelling can report for one mask, in scan order
Detections == {d \in SeqsUpTo(Shapes, MaxComps) : Injective(d)}

Roi(f, shape) == [file |-> f, w |-> shape.w, h |-> shape.h, area |-> shape.area]

\* ParticleAnalyzer(..., minSize = 50.0, maxSize = inf, ...): the size filter
KeepsParticle(shape) == shape.area >= MinParticleSize

\* pa.analyze(summed_imp) with ADD_TO_MANAGER: the ROIs it adds to the manager
AnalyzeParticles(f, d) ==
    LET kept == SelectSeq(d, KeepsParticle)
    IN  [i \in 1..Len(kept) |-> Roi(f, kept[i])]

\* lambda r: r.getBounds().width * r.getBounds().height
BoundsArea(r) == r.w * r.h

\* max(rois, key=...): the first element whose key is the largest
LargestRoi(rois) ==
    LET i == CHOOSE k \in 1..Len(rois) :
                 /\ \A j \in 1..Len(rois) : BoundsArea(rois[j]) <= BoundsArea(rois[k])
                 /\ \A j \in 1..(k - 1) : BoundsArea(rois[j]) < BoundsArea(rois[k])
    IN  rois[i]

\* lines 189-194: rois is the whole content of the manager
SelectRoi(rois) == IF rois = <<>> THEN None ELSE LargestRoi(rois)

(***************************************************************************)
(* Measurer: the row "Measure" adds and the tuple built from the table.    *)
(* The pixels under the ROI are uniform with intensity mean; origin is a   *)
(* history field (the file and slice that were measured), not a column.    *)
(***************************************************************************)
\* the intensity under the ROI: one level in a batch run, two where the
\* aggregator is fed tables
Means == {1}

AggMeans == {0, 1}

MeasureRow(r, mean, f, i) ==
    [Area |-> r.area, Min |-> mean, Max |-> mean, IntDen |-> r.area * mean,
     Mean |-> mean, RawIntDen |-> r.area * mean, origin |-> <<f, i>>]

\* lines 212-220: every value is read from row rt.getCounter() - 1
MeasurementOf(table, i) ==
    LET row == Last(table)
    IN  [Area |-> row.Area, Min |-> row.Min, Max |-> row.Max, IntDen |-> row.IntDen,
         Mean |-> row.Mean, RawIntDen |-> row.RawIntDen, StackPosition |-> i,
         origin |-> row.origin]

\* lines 208-220: the body of the loop after IJ.run(imp, "Measure", "")
RecordSlice(ms, table, i) ==
    IF Len(table) = 0 THEN ms ELSE Append(ms, MeasurementOf(table, i))

(***************************************************************************)
(* Tabular writer: save_measurements_to_csv.  A table is the header line   *)
(* and the data lines of a csv file; an empty file has neither.            *)
(***************************************************************************)
EmptyFile == [header |-> <<>>, rows |-> <<>>]

CsvRow(m) == <<FloatStr(m.Area), FloatStr(m.Min), FloatStr(m.Max), FloatStr(m.IntDen),
               FloatStr(m.Mean), FloatStr(m.RawIntDen), IntStr(m.StackPosition)>>

\* what the file holds when the with-block ends
WriteMeasurements(ms) ==
    IF ms # <<>>
    THEN [header |-> CsvHeaders, rows |-> [i \in 1..Len(ms) |-> CsvRow(ms[i])]]
    ELSE EmptyFile

MeasurementsPath(fileName) == fileName \o MeasurementsSuffix

\* open(output_path, 'wb') creates or truncates the file whatever ms is
SaveMeasurementsToCsv(dir, ms, fileName) ==
    [n \in DOMAIN dir \cup {MeasurementsPath(fileName)} |->
        IF n = MeasurementsPath(fileName) THEN WriteMeasurements(ms) ELSE dir[n]]

(***************************************************************************)
(* Aggregator: compile_integrated_density.                                 *)
(***************************************************************************)
\* csv.DictReader: the cells of the data lines under a header name; a row
\* has the key exactly when the header line names it
Column(table, name) ==
    IF \E j \in DOMAIN table.header : table.header[j] = name
    THEN LET j == CHOOSE k \in DOMAIN table.header : table.header[k] = name
         IN  [i \in 1..Len(table.rows) |-> table.rows[i][j]]
    ELSE <<>>

\* line 60: the files of the directory the loop reads
CsvFiles(dir) == {n \in DOMAIN dir : EndsWith(n, ".csv")}

\* lines 57 and 69: the running maximum over the files read
MaxLength(dir) ==
    LET lens == {0} \cup {Len(Column(dir[n], "IntDen")) : n \in CsvFiles(dir)}
                    \cup {Len(Column(dir[n], "RawIntDen")) : n \in CsvFiles(dir)}
    IN  CHOOSE m \in lens : \A l \in lens : l <= m

\* padding with a zero
PadWithZero(col, n) == col \o Repeat(FloatStr(0), n - Len(col))

\* lines 72-75: list.extend([''] * (max_length - len(list)))
Pad(col, n) == col \o Repeat(EmptyMarker, n - Len(col))

\* zip(*columns): one row per index every column has
Zip(cols) ==
    IF cols = <<>> THEN <<>>
    ELSE LET n == CHOOSE m \in {Len(cols[j]) : j \in DOMAIN cols} :
                      \A j \in DOMAIN cols : m <= Len(cols[j])
         IN  [i \in 1..n |-> [j \in DOMAIN cols |-> cols[j][i]]]

\* the headers listed in the reverse of the order of the columns
CompiledTableHeadersReversed(dir, keys) ==
    LET max_length == MaxLength(dir)
        n == Len(keys)
        intden == [i \in DOMAIN keys |-> Pad(Column(dir[keys[i]], "IntDen"), max_length)]
        rawintden == [i \in DOMAIN keys |-> Pad(Column(dir[keys[i]], "RawIntDen"), max_length)]
    IN  [header |-> [i \in DOMAIN keys |-> "IntDen_" \o keys[n + 1 - i]]
                        \o [i \in DOMAIN keys |-> "RawIntDen_" \o keys[n + 1 - i]],
         rows   |-> Zip(intden \o rawintden)]

\* lines 80-82.  keys is the iteration order of the two dictionaries: both
\* receive the same keys in the same order of insertion (lines 66-69), so
\* they iterate alike, in an order the language leaves open.
CompiledTable(dir, keys) ==
    LET max_length == MaxLength(dir)
        intden == [i \in DOMAIN keys |-> Pad(Column(dir[keys[i]], "IntDen"), max_length)]
        rawintden == [i \in DOMAIN keys |-> Pad(Column(dir[keys[i]], "RawIntDen"), max_length)]
    IN  [header |-> [i \in DOMAIN keys |-> "IntDen_" \o keys[i]]
                        \o [i \in DOMAIN keys |-> "RawIntDen_" \o keys[i]],
         rows   |-> Zip(intden \o rawintden)]

\* line 78: the directory after the compiled file is written
WriteCompiled(dir, table) ==
    [n \in DOMAIN dir \cup {CompiledName} |-> IF n = CompiledName THEN table ELSE dir[n]]

(***************************************************************************)
(* File names written under dstDir.                                        *)
(***************************************************************************)
\* line 241
ProcessedSavePath(fileName) == "Processed_" \o fileName

(***************************************************************************)
(* The batch driver: run().                                                *)
(***************************************************************************)
\* line 33, negated: the file is not skipped by the name filter
PassesFilter(filter, fileName) == ~(filter # "" /\ ~Contains(filter, fileName))

\* lines 33-35: process() is called for this entry
Matched(filter, fileName) == PassesFilter(filter, fileName) /\ EndsWith(fileName, ext)

EmptyDir == [n \in {} |-> EmptyFile]

Idle == /\ cur = ""
        /\ nSlices = 0
        /\ roi = None
        /\ detected = <<>>
        /\ slice = 0
        /\ measurements = <<>>

Init ==
    /\ walk \in {w \in SeqsUpTo(FileNames, MaxFiles) : Injective(w)}
    /\ fileFilter \in Filters
    /\ idx = 0
    /\ pc = "run"
    /\ attempted = <<>>
    /\ Idle
    /\ roiManager = <<>>
    /\ rt = <<>>
    /\ openImages = {}
    /\ mutated = {}
    /\ bgLoads = 0
    /\ csvDir = EmptyDir
    /\ dstFiles = {}
    /\ log = {}
    /\ compiled = None

params == <<walk, fileFilter>>
locals == <<cur, nSlices, roi, detected, slice, measurements>>
host   == <<roiManager, rt>>
images == <<openImages, mutated, bgLoads>>
disk   == <<csvDir, dstFiles, compiled>>

\* process() returns to the loop of run(): its locals die, line 40 prints
ReturnToRun(msgs) ==
    /\ pc' = "run"
    /\ cur' = ""
    /\ nSlices' = 0
    /\ roi' = None
    /\ detected' = <<>>
    /\ slice' = 0
    /\ measurements' = <<>>
    /\ log' = log \cup {<<cur, m>> : m \in msgs} \cup {<<cur, "Finished processing file">>}

\* the exception leaves run(): the script ends
ProcessExceptPropagates ==
    /\ pc' = "done"
    /\ cur' = ""
    /\ nSlices' = 0
    /\ roi' = None
    /\ detected' = <<>>
    /\ slice' = 0
    /\ measurements' = <<>>
    /\ log' = log \cup {<<cur, "Error in process function">>}

\* lines 116-117: an exception raised anywhere in the body of process() is
\* caught there and printed; process() then returns normally, so the handler
\* of run() (lines 41-42) has nothing left to catch
ProcessExcept == ReturnToRun({"Error in process function"})

\* line 33-34: continue
RunSkipFilter ==
    /\ pc = "run"
    /\ idx < Len(walk)
    /\ ~PassesFilter(fileFilter, walk[idx + 1])
    /\ idx' = idx + 1
    /\ UNCHANGED <<params, pc, attempted, locals, host, images, disk, log>>

\* line 35 false: the entry is passed over
RunSkipExt ==
    /\ pc = "run"
    /\ idx < Len(walk)
    /\ PassesFilter(fileFilter, walk[idx + 1])
    /\ ~EndsWith(walk[idx + 1], ext)
    /\ idx' = idx + 1
    /\ UNCHANGED <<params, pc, attempted, locals, host, images, disk, log>>

\* lines 36-39: process() is entered
RunProcess ==
    /\ pc = "run"
    /\ idx < Len(walk)
    /\ Matched(fileFilter, walk[idx + 1])
    /\ idx' = idx + 1
    /\ attempted' = Append(attempted, walk[idx + 1])
    /\ cur' = walk[idx + 1]
    /\ pc' = "open_src"
    /\ log' = log \cup {<<walk[idx + 1], "Processing file">>}
    /\ UNCHANGED <<params, nSlices, roi, detected, slice, measurements, host, images, disk>>

\* the walk is exhausted: line 44
RunEnd ==
    /\ pc = "run"
    /\ idx = Len(walk)
    /\ pc' = "ask"
    /\ UNCHANGED <<params, idx, attempted, locals, host, images, disk, log>>

(***************************************************************************)
(* The per-file pipeline: process().                                       *)
(***************************************************************************)
\* lines 91-94: imp = open_image(imagePath)
OpenSource ==
    /\ pc = "open_src"
    /\ \/ /\ \E n \in 1..MaxSlices : nSlices' = n
          /\ openImages' = openImages \cup {Image(cur, "imp")}
          /\ pc' = "open_bg"
          /\ UNCHANGED <<cur, roi, detected, slice, measurements, log>>
       \/ /\ ReturnToRun({"Failed to open image"})
          /\ UNCHANGED openImages
    /\ UNCHANGED <<params, idx, attempted, host, mutated, bgLoads, disk>>

\* the background is opened by the first call only and kept
OpenBackgroundOnce ==
    /\ pc = "open_bg"
    /\ bgLoads' = IF bgLoads = 0 THEN 1 ELSE bgLoads
    /\ \/ /\ openImages' = openImages \cup {Image(cur, "background_imp")}
          /\ pc' = "subtract"
          /\ UNCHANGED <<locals, log>>
       \/ /\ ReturnToRun({"Failed to open background image"})
          /\ UNCHANGED openImages
    /\ UNCHANGED <<params, idx, attempted, host, mutated, disk>>

\* lines 96-99: background_imp = open_image(backgroundImagePath)
OpenBackground ==
    /\ pc = "open_bg"
    /\ bgLoads' = bgLoads + 1
    /\ \/ /\ openImages' = openImages \cup {Image(cur, "background_imp")}
          /\ pc' = "subtract"
          /\ UNCHANGED <<locals, log>>
       \/ /\ ReturnToRun({"Failed to open background image"})
          /\ UNCHANGED openImages
    /\ UNCHANGED <<params, idx, attempted, host, mutated, disk>>

\* lines 101-102 and 156-158: "Subtract create stack" makes a new stack and
\* leaves both operands as they are; it yields nothing on a size mismatch
SubtractBackground ==
    /\ pc = "subtract"
    /\ \/ /\ openImages' = openImages \cup {Image(cur, "result_imp")}
          /\ pc' = "filter"
          /\ UNCHANGED <<locals, log>>
       \/ /\ ReturnToRun({})
          /\ UNCHANGED openImages
       \/ /\ ProcessExcept
          /\ UNCHANGED openImages
    /\ UNCHANGED <<params, idx, attempted, host, mutated, bgLoads, disk>>

\* lines 103-104: remove_outliers and apply_gaussian_blur work in place
FilterStack ==
    /\ pc = "filter"
    /\ \/ /\ mutated' = mutated \cup {Image(cur, "result_imp")}
          /\ pc' = "sum"
          /\ UNCHANGED <<locals, log>>
       \/ /\ ProcessExcept
          /\ UNCHANGED mutated
    /\ UNCHANGED <<params, idx, attempted, host, openImages, bgLoads, disk>>

\* lines 105-106 and 127-136: sum_slices catches its own exception and
\* returns None, and process() then skips everything that is left
SumSlices ==
    /\ pc = "sum"
    /\ \/ /\ openImages' = openImages \cup {Image(cur, "summed_imp")}
          /\ pc' = "roi"
          /\ UNCHANGED <<locals, log>>
       \/ /\ ReturnToRun({"Error in sum_slices"})
          /\ UNCHANGED openImages
    /\ UNCHANGED <<params, idx, attempted, host, mutated, bgLoads, disk>>

\* lines 109-115: with an ROI the PNG, the measurements and the table come
\* first; without one process() goes straight to save_processed_image
AfterSegmentationSkipsSave(r) == IF r = None THEN "run" ELSE "save_roi"

AfterSegmentation(r) == IF r = None THEN "save_img" ELSE "save_roi"

\* lines 107 and 177-194: the analyzer adds its particles to the manager
\* and the ROI is chosen among everything the manager then holds
DetermineRoi ==
    /\ pc = "roi"
    /\ \/ \E d \in Detections :
            LET added == AnalyzeParticles(cur, d)
                rois  == roiManager \o added
            IN  /\ roiManager' = rois
                /\ detected' = added
                /\ roi' = SelectRoi(rois)
                /\ mutated' = mutated \cup {Image(cur, "summed_imp")}
                /\ log' = IF rois = <<>> THEN log \cup {<<cur, "No ROIs found">>} ELSE log
                /\ pc' = AfterSegmentation(SelectRoi(rois))
                /\ UNCHANGED <<cur, nSlices, slice, measurements>>
       \/ /\ ProcessExcept
          /\ UNCHANGED <<roiManager, mutated>>
    /\ UNCHANGED <<params, idx, attempted, rt, openImages, bgLoads, disk>>

\* lines 110-111 and 138-145: imp.setRoi(roi), then save_with_roi, which
\* catches a failure of its save; the PNG is read by nothing that follows
SaveWithRoi ==
    /\ pc = "save_roi"
    /\ mutated' = mutated \cup {Image(cur, "imp")}
    /\ pc' = "apply"
    /\ UNCHANGED <<params, idx, attempted, locals, host, openImages, bgLoads, disk, log>>

\* lines 198-201: the head of apply_roi_and_measure
ApplyBegin ==
    /\ pc = "apply"
    /\ roiManager' = Append(roiManager, roi)
    /\ measurements' = <<>>
    /\ slice' = 1
    /\ pc' = "measure"
    /\ UNCHANGED <<params, idx, attempted, cur, nSlices, roi, detected, rt, images, disk, log>>

\* lines 203-220: one pass of the loop.  "Measure" adds a row to the system
\* results table or adds none; the call, or reading a column the table
\* lacks, may throw
MeasureSlice ==
    /\ pc = "measure"
    /\ slice <= nSlices
    /\ \/ /\ \E m \in Means : rt' = Append(rt, MeasureRow(roi, m, cur, slice))
          /\ measurements' = RecordSlice(measurements, rt', slice)
          /\ slice' = slice + 1
          /\ UNCHANGED <<pc, cur, nSlices, roi, detected, log>>
       \/ /\ rt' = rt
          /\ measurements' = RecordSlice(measurements, rt, slice)
          /\ slice' = slice + 1
          /\ log' = IF Len(rt) = 0
                    THEN log \cup {<<cur, "No measurements found for slice">>}
                    ELSE log
          /\ UNCHANGED <<pc, cur, nSlices, roi, detected>>
       \/ /\ \E t \in {rt} \cup {Append(rt, MeasureRow(roi, m, cur, slice)) : m \in Means} :
                rt' = t
          /\ ProcessExcept
    /\ UNCHANGED <<params, idx, attempted, roiManager, images, disk>>

\* lines 222-223: the loop has ended
MeasureEnd ==
    /\ pc = "measure"
    /\ slice > nSlices
    /\ roiManager' = <<>>
    /\ pc' = "save_csv"
    /\ UNCHANGED <<params, idx, attempted, locals, rt, images, disk, log>>

\* lines 113 and 226-234
SaveCsv ==
    /\ pc = "save_csv"
    /\ \/ /\ csvDir' = SaveMeasurementsToCsv(csvDir, measurements, cur)
          /\ pc' = "save_img"
          /\ UNCHANGED <<locals, log>>
       \/ /\ ProcessExcept
          /\ UNCHANGED csvDir
    /\ UNCHANGED <<params, idx, attempted, host, images, dstFiles, compiled>>

\* lines 115 and 237-248: a failure of IJ.saveAs is caught and the stack is
\* closed all the same; os.makedirs may throw before either
SaveProcessedImage ==
    /\ pc = "save_img"
    /\ \/ /\ dstFiles' = dstFiles \cup {ProcessedSavePath(cur)}
          /\ openImages' = openImages \ {Image(cur, "result_imp")}
          /\ ReturnToRun({"Image saved successfully"})
       \/ /\ dstFiles' = dstFiles
          /\ openImages' = openImages \ {Image(cur, "result_imp")}
          /\ ReturnToRun({"Error saving image"})
       \/ /\ ProcessExcept
          /\ UNCHANGED <<dstFiles, openImages>>
    /\ UNCHANGED <<params, idx, attempted, host, mutated, bgLoads, csvDir, compiled>>

(***************************************************************************)
(* After the loop: the confirmation prompt and the aggregator.             *)
(***************************************************************************)
\* lines 44 and 47-52: gd.wasOKed()
AskYes ==
    /\ pc = "ask"
    /\ pc' = "compile"
    /\ UNCHANGED <<params, idx, attempted, locals, host, images, disk, log>>

AskNo ==
    /\ pc = "ask"
    /\ pc' = "done"
    /\ UNCHANGED <<params, idx, attempted, locals, host, images, disk, log>>

\* lines 45 and 54-84
Compile ==
    /\ pc = "compile"
    /\ \E keys \in Orderings(CsvFiles(csvDir)) :
          /\ compiled' = CompiledTable(csvDir, keys)
          /\ csvDir' = WriteCompiled(csvDir, compiled')
    /\ pc' = "done"
    /\ UNCHANGED <<params, idx, attempted, locals, host, images, dstFiles, log>>

Next ==
    \/ RunSkipFilter
    \/ RunSkipExt
    \/ RunProcess
    \/ RunEnd
    \/ OpenSource
    \/ OpenBackground
    \/ SubtractBackground
    \/ FilterStack
    \/ SumSlices
    \/ DetermineRoi
    \/ SaveWithRoi
    \/ ApplyBegin
    \/ MeasureSlice
    \/ MeasureEnd
    \/ SaveCsv
    \/ SaveProcessedImage
    \/ AskYes
    \/ AskNo
    \/ Compile

Spec == Init /\ [][Next]_vars

(***************************************************************************)
(* The aggregator on its own: any per-file tables the tabular writer can   *)
(* leave in the csv directory, then compile_integrated_density.  The       *)
(* directory starts empty, or holding a file that is no csv, or holding    *)
(* what an earlier batch left: a per-file table and its compiled table.    *)
(***************************************************************************)
\* the lists apply_roi_and_measure returns for a k-slice stack whose every
\* slice yields a row, for the ROI of a 50-pixel particle
MeasurementLists(f) ==
    {[i \in 1..Len(means) |->
         MeasurementOf(<<MeasureRow([area |-> MinParticleSize], means[i], f, i)>>, i)] :
       means \in SeqsUpTo(AggMeans, MaxRows)}

StrayDir == [n \in {"notes.txt"} |-> EmptyFile]

EarlierDir ==
    LET ms  == CHOOSE l \in MeasurementLists("a.tif") : Len(l) = 1 /\ l[1].Mean = 1
        dir == SaveMeasurementsToCsv(EmptyDir, ms, "a.tif")
    IN  WriteCompiled(dir, CompiledTable(dir, <<MeasurementsPath("a.tif")>>))

InitAgg ==
    /\ walk = <<>>
    /\ fileFilter = ""
    /\ idx = 0
    /\ pc = "agg"
    /\ attempted = <<>>
    /\ Idle
    /\ roiManager = <<>>
    /\ rt = <<>>
    /\ openImages = {}
    /\ mutated = {}
    /\ bgLoads = 0
    /\ csvDir \in {EmptyDir, StrayDir, EarlierDir}
    /\ dstFiles = {}
    /\ log = {}
    /\ compiled = None

\* the next file of the batch has its table written (lines 113, 226-234)
AggSave ==
    /\ pc = "agg"
    /\ \E f \in AggNames \ Range(attempted) :
         \E ms \in MeasurementLists(f) :
            /\ csvDir' = SaveMeasurementsToCsv(csvDir, ms, f)
            /\ attempted' = Append(attempted, f)
    /\ UNCHANGED <<params, idx, pc, locals, host, images, dstFiles, compiled, log>>

\* the batch is over and the operator confirms (lines 44-45, 54-84)
AggCompile ==
    /\ pc = "agg"
    /\ \E keys \in Orderings(CsvFiles(csvDir)) :
          /\ compiled' = CompiledTable(csvDir, keys)
          /\ csvDir' = WriteCompiled(csvDir, compiled')
    /\ pc' = "agg_done"
    /\ UNCHANGED <<params, idx, attempted, locals, host, images, dstFiles, log>>

NextAgg ==
    \/ AggSave
    \/ AggCompile

SpecAgg == InitAgg /\ [][NextAgg]_vars

(***************************************************************************)
(* Properties of the batch (specification Spec).                           *)
(***************************************************************************)
\* the entries among the first n of the walk that run() hands to process()
MatchedPrefix(n) == SelectSeq(SubSeq(walk, 1, n), LAMBDA f : Matched(fileFilter, f))

Finished(f) == <<f, "Finished processing file">> \in log

Failed(f) == \/ <<f, "Failed to open image">> \in log
             \/ <<f, "Failed to open background image">> \in log
             \/ <<f, "Error in sum_slices">> \in log
             \/ <<f, "Error in process function">> \in log

\* C1: at every moment the files process() was called with are exactly the
\* matched entries among those the loop has consumed, each once and in walk
\* order, whatever became of the earlier files; and the script is past the
\* loop only when every matched entry of the walk has been attempted.
C1_EveryMatchedFileAttempted ==
    /\ attempted = MatchedPrefix(idx)
    /\ pc \in {"ask", "compile", "done"} => attempted = MatchedPrefix(Len(walk))

\* C1 witness: a batch that ended after two files, the first of which failed.
C1_Witness ==
    /\ pc = "done"
    /\ Len(attempted) = 2
    /\ Failed(attempted[1])
    /\ Finished(attempted[2])

\* the files whose process() call has reached open_image(backgroundImagePath)
ReachedBackground ==
    {f \in Range(attempted) :
        IF f = cur THEN pc \notin {"open_src", "open_bg"}
                   ELSE <<f, "Failed to open image">> \notin log}

\* C2 as claimed: the background is loaded at most once in a batch.
C2_BackgroundLoadedOnce == bgLoads <= 1

\* C2 as amended: the background is loaded once by every process() call
\* whose source image opened, so the loads of a batch number the files whose
\* source opened, and no stage changes a loaded background in place.
C2_BackgroundLoadedPerFile ==
    /\ bgLoads = Cardinality(ReachedBackground)
    /\ \A img \in mutated : img.kind # "background_imp"

\* C2 witness: a finished batch that loaded the background twice.
C2_Witness ==
    /\ pc = "done"
    /\ bgLoads = 2
    /\ Cardinality({img \in openImages : img.kind = "background_imp"}) = 2

\* C3 as claimed: every record of the list being built carries the values
\* measured on its own slice of the current file, so a slice that yielded no
\* data has no record.
C3_NoRecordWithoutData ==
    \A i \in DOMAIN measurements :
        measurements[i].origin = <<cur, measurements[i].StackPosition>>

\* C4 as claimed: the csv directory holds no per-file table file without
\* records, so a file with an empty measurement list leaves no file there.
C4_NoFileForEmptyMeasurements ==
    \A n \in DOMAIN csvDir : n # CompiledName => csvDir[n] # EmptyFile

\* save_processed_image was entered for f
SaveEntered(f) == \/ cur = f /\ pc = "save_img"
                  \/ <<f, "Image saved successfully">> \in log
                  \/ <<f, "Error saving image">> \in log
                  \/ <<f, "Error in process function">> \in log

\* C5: a file for which determine_roi found no ROI has no measurement table
\* in the csv directory, and process() goes on to save_processed_image for it.
C5_NoRoiSkipsTableKeepsSave ==
    \A f \in Range(attempted) :
        <<f, "No ROIs found">> \in log =>
            /\ MeasurementsPath(f) \notin DOMAIN csvDir
            /\ SaveEntered(f)

\* C5 witness: a file without ROI whose processed stack was written and which
\* has no table, beside a file that has one.
C5_Witness ==
    \E f \in Range(attempted) :
        /\ <<f, "No ROIs found">> \in log
        /\ ProcessedSavePath(f) \in dstFiles
        /\ MeasurementsPath(f) \notin DOMAIN csvDir
        /\ csvDir # EmptyDir

AfterDetermineRoi == pc \in {"save_roi", "apply", "measure", "save_csv", "save_img"}

\* C6 as claimed: the ROI determine_roi returned is the first of the
\* particles kept for this file's plane whose bounding box is the largest,
\* and there is none when no particle was kept.
C6_LargestBoundingBoxOfThisFile ==
    AfterDetermineRoi =>
        IF detected = <<>> THEN roi = None
        ELSE \E i \in DOMAIN detected :
                /\ roi = detected[i]
                /\ \A j \in DOMAIN detected : BoundsArea(detected[j]) <= BoundsArea(roi)
                /\ \A j \in 1..(i - 1) : BoundsArea(detected[j]) < BoundsArea(roi)

\* C9 as claimed: when run() is about to take the next entry, no source
\* stack, processed stack or projected plane of an earlier file is open.
C9_PreviousImagesReleased ==
    pc = "run" =>
        \A img \in openImages : img.kind \notin {"imp", "result_imp", "summed_imp"}

\* C10 as claimed: the manager is empty when a file's segmentation starts,
\* and the ROI determine_roi returns is a particle of the current file.
C10_RoiOfThisFile ==
    /\ pc = "roi" => roiManager = <<>>
    /\ roi # None => roi.file = cur

(***************************************************************************)
(* Properties of the aggregator (specification SpecAgg).                   *)
(***************************************************************************)
\* the cells of column j of the compiled table, top to bottom
CompiledColumn(j) == [r \in 1..Len(compiled.rows) |-> compiled.rows[r][j]]

\* the per-file tables of the directory
PerFileTables == {n \in DOMAIN csvDir : EndsWith(n, MeasurementsSuffix)}

IsPrefix(s, t) == Len(s) <= Len(t) /\ SubSeq(t, 1, Len(s)) = s

\* C7 as claimed: where the directory held only this batch's tables, the
\* headers are the IntDen_ names in the order the files were processed and
\* then the RawIntDen_ names in that order.
C7_ColumnsInProcessingOrder ==
    (pc = "agg_done" /\ Len(compiled.header) = 2 * Len(attempted)) =>
        compiled.header =
            [i \in DOMAIN attempted |-> "IntDen_" \o MeasurementsPath(attempted[i])]
              \o [i \in DOMAIN attempted |-> "RawIntDen_" \o MeasurementsPath(attempted[i])]

\* C7 as amended: the first half of the headers are IntDen_ names and the
\* second half the RawIntDen_ names of the same files in the same order (an
\* order that need not be the processing order), every per-file table has
\* its pair of columns, no header occurs twice, and under each header stand
\* the values of that column of that file.
C7_ColumnsGroupedAndAligned ==
    pc = "agg_done" =>
        LET n == Len(compiled.header) \div 2
        IN  /\ Len(compiled.header) = 2 * n
            /\ Injective(compiled.header)
            /\ \A k \in PerFileTables : \E i \in 1..n : compiled.header[i] = "IntDen_" \o k
            /\ \A i \in 1..n : \E k \in CsvFiles(csvDir) :
                  /\ compiled.header[i] = "IntDen_" \o k
                  /\ compiled.header[n + i] = "RawIntDen_" \o k
                  /\ IsPrefix(Column(csvDir[k], "IntDen"), CompiledColumn(i))
                  /\ IsPrefix(Column(csvDir[k], "RawIntDen"), CompiledColumn(n + i))

\* C7 witness: two tables with different values compiled in an order that
\* is not the order they were written in.
C7_Witness ==
    /\ pc = "agg_done"
    /\ Len(attempted) = 2
    /\ Len(compiled.header) = 4
    /\ compiled.header[1] = "IntDen_" \o MeasurementsPath(attempted[2])
    /\ compiled.rows # <<>>
    /\ compiled.rows[1][1] # compiled.rows[1][2]

RowCount(n) == Len(csvDir[n].rows)

\* C8: the compiled table has as many data rows as the longest per-file
\* table, and a column of a file with k records holds its k values in rows
\* 1..k and the empty marker, which is not a zero, in every row after.
C8_PaddedToMaxWithEmptyMarker ==
    pc = "agg_done" =>
        /\ \A n \in PerFileTables : RowCount(n) <= Len(compiled.rows)
        /\ compiled.rows # <<>> => \E n \in PerFileTables : RowCount(n) = Len(compiled.rows)
        /\ EmptyMarker # FloatStr(0)
        /\ \A n \in PerFileTables : \A j \in DOMAIN compiled.header :
              compiled.header[j] \in {"IntDen_" \o n, "RawIntDen_" \o n} =>
                 /\ \A r \in 1..RowCount(n) : CompiledColumn(j)[r] # EmptyMarker
                 /\ \A r \in (RowCount(n) + 1)..Len(compiled.rows) :
                       CompiledColumn(j)[r] = EmptyMarker
                 /\ SubSeq(CompiledColumn(j), 1, RowCount(n)) =
                       IF compiled.header[j] = "IntDen_" \o n
                       THEN Column(csvDir[n], "IntDen")
                       ELSE Column(csvDir[n], "RawIntDen")

\* C8 witness: a two-record file and a one-record file whose value is zero:
\* two data rows, the shorter file's column padded in row 2.
C8_Witness ==
    /\ pc = "agg_done"
    /\ Len(compiled.rows) = 2
    /\ \E j, k \in DOMAIN compiled.header :
          /\ compiled.rows[1][j] = FloatStr(0)
          /\ compiled.rows[2][j] = EmptyMarker
          /\ compiled.rows[2][k] # EmptyMarker

====
